---- MODULE Spec2Model ----
(***************************************************************************)
(* CropSight: the multi-agent analysis pipeline (services/geminiService.ts) *)
(* and the App component that drives it (runAnalysis and its handlers).     *)
(*                                                                          *)
(* Encoding of JavaScript values:                                           *)
(*   - an object is a TLA+ record; a property that is missing or undefined  *)
(*     is a field that is absent from the record's DOMAIN;                  *)
(*   - a number is an integer count of thousandths (0.87 is 870, 87 is      *)
(*     87000), so that fractional confidences are exact;                    *)
(*   - a text is a sequence of tokens; String.includes is membership of a   *)
(*     token in the sequence.                                               *)
(***************************************************************************)
EXTENDS Integers, Sequences, FiniteSets, TLC

VARIABLES
    view,                    \* App: ViewState
    isCameraOpen,            \* App: camera overlay shown
    capturedImages,          \* App: number of captured images
    cameraImages,            \* Camera: number of images taken since it was opened
    history,                 \* App: sequence of AnalysisResult, newest first
    userNotes,               \* App: the notes field, a text
    iotData,                 \* App: TRUE iff a sensor snapshot is present
    isAnalyzing,             \* App: loading screen shown
    analysisStatus,          \* App: last status label
    currentResult,           \* App: result shown by ResultCard (<<>> is null)
    clarificationQuestions,  \* App: questions of the clarification modal
    showClarificationModal,  \* App: clarification modal shown
    modalState,              \* App: message modal
    overrideNotes,           \* runAnalysis: its argument, << >> when absent
    run,                     \* the analyzePlantImage invocation in progress
    interaction,             \* observation: counters of the current interaction
    failureLog,              \* observation: what console.error saw, what was raised
    normalization,           \* the confidence normalization applied on its own
    sessions,                \* analyzePlantImage invocations running side by side
    singleCall,              \* the single-call analyzePlantImage of the README
    isConnectingIoT,         \* App: the Connect Device timer is pending
    iotRequested,            \* observation: Connect Device pressed since the scan began
    analysisMode,            \* App: DIAGNOSIS or IDENTIFICATION
    camera,                  \* Camera component: state, refs, media streams, getUserMedia requests
    chat                     \* ChatInterface component: messages, input, isLoading, position of handleSend

vars == << view, isCameraOpen, capturedImages, cameraImages, history, userNotes, iotData, isAnalyzing,
           analysisStatus, currentResult, clarificationQuestions,
           showClarificationModal, modalState, overrideNotes, run, interaction,
           failureLog, normalization, sessions, singleCall, isConnectingIoT, iotRequested, analysisMode, camera, chat >>

-----------------------------------------------------------------------------
(* Bounds *)

\* number of Analyze presses explored in one behaviour
MaxAnalyses == 1

\* number of images the camera hands over in one capture
MaxCaptured == 1
MaxChunks == 6
MaxUniqueSources == 11

\* raw confidences normalized on their own: every thousandth up to MaxFine
\* thousandths and every whole number up to MaxWhole, of either sign
MaxFine == 2500
MaxWhole == 150

\* times the normalization is applied to its own result
MaxPasses == 2

\* images the Camera component is followed up to
MaxCameraImages == 4

\* calls of startCamera in one behaviour
MaxStarts == 3

\* times the Camera component is mounted in one behaviour
MaxMounts == 1

\* FileReader loads of the Camera pending at once
MaxReading == 1

\* messages sent in one chat
MaxSends == 2

\* chunks of one streamed answer
MaxStreamChunks == 2

-----------------------------------------------------------------------------
(* Numbers: thousandths *)

Unit == 1000

Num(n) == n * Unit

\* Math.round(x * 100) for x given in thousandths; Math.round rounds half up
RoundTimes100(x) == Num((x + 5) \div 10)

-----------------------------------------------------------------------------
(* JavaScript helpers *)

Has(obj, k) == k \in DOMAIN obj

\* obj.k || dflt for a number: undefined and 0 are falsy
NumOrElse(obj, k, dflt) == IF Has(obj, k) /\ obj[k] # 0 THEN obj[k] ELSE dflt

\* obj.k || dflt for a string: undefined and "" are falsy
StrOrElse(obj, k, dflt) == IF Has(obj, k) /\ obj[k] # "" THEN obj[k] ELSE dflt

\* obj.k || [] for an array: only undefined is falsy
ListOrEmpty(obj, k) == IF Has(obj, k) THEN obj[k] ELSE << >>

\* { ...obj, k: src.sk } where an undefined src.sk leaves k undefined
WithProp(obj, k, src, sk) == IF Has(src, sk) THEN (k :> src[sk]) @@ obj ELSE obj

\* a comparison with the sentinel instead of a search for it
IncludesNotAPlant_equals(text) == text = <<"NOT_A_PLANT">>

\* visualDescription.includes("NOT_A_PLANT")
IncludesNotAPlant(text) == \E i \in 1..Len(text) : text[i] = "NOT_A_PLANT"

Count(log, e) == Cardinality({i \in 1..Len(log) : log[i] = e})

-----------------------------------------------------------------------------
(* The generation service: what a stage call may come back with *)

\* response.text of the Analyzer call
AnalyzerTexts ==
    { << >>, <<"chlorosis">>, <<"NOT_A_PLANT">>, <<"blurry", "NOT_A_PLANT">>,
      <<"NOT_A_PLANT", "blurry">> }

\* json.confidence values the Classifier call may report (thousandths)
RawConfidences == { 0, 870, 1500, Num(87), Num(150), Num(-5) }

Diagnoses == { "Not a Plant", "Early Blight" }

MissingInfos == { << >>, <<"Does it smell?">> }

\* objects of the Classifier's response schema, required fields present or not
ClassifierJsons ==
    LET opt(k, S) == { << >> } \cup { (k :> v) : v \in S }
    IN  { d @@ c @@ r @@ m :
            d \in opt("diagnosis", Diagnoses),
            c \in opt("confidence", RawConfidences),
            r \in opt("confidenceReason", {"matches .edu source"}),
            m \in opt("missingInfo", MissingInfos) }

chunkA == [web |-> [uri |-> "A", title |-> "Extension A"]]
chunkA2 == [web |-> [uri |-> "A", title |-> "Extension A again"]]
chunkNoTitle == [web |-> [uri |-> "B"]]

\* a search that grounded the answer in many distinct pages
ManyChunks ==
    [i \in 1..MaxChunks |->
        [web |-> [uri |-> "U" \o ToString(i), title |-> "Page " \o ToString(i)]]]

\* candidates[0].groundingMetadata.groundingChunks, << >> when there are none
GroundingChunks == { << >>, <<chunkA, chunkNoTitle, chunkA2>> }

\* the objects that carry a diagnosis, a confidence and a reason, no questions
CompleteClassifierJsons ==
    { j \in ClassifierJsons :
        DOMAIN j = { "diagnosis", "confidence", "confidenceReason" } }

\* response.text of a JSON stage: empty, not JSON, or the JSON of an object
ClassifierResponses ==
    { [text |-> [kind |-> "empty"], chunks |-> << >>],
      [text |-> [kind |-> "malformed"], chunks |-> << >>] }
    \cup { [text |-> [kind |-> "json", json |-> j], chunks |-> g] :
              j \in ClassifierJsons, g \in GroundingChunks }
    \cup { [text |-> [kind |-> "json", json |-> j], chunks |-> ManyChunks] :
              j \in CompleteClassifierJsons }

AdviceLists == { << >>, <<"Remove infected leaves">> }

AdvisorJsons ==
    LET opt(k, S) == { << >> } \cup { (k :> v) : v \in S }
    IN  { t @@ p : t \in opt("treatment", AdviceLists),
                   p \in opt("prevention", AdviceLists) }

AdvisorResponses ==
    { [text |-> [kind |-> "empty"]], [text |-> [kind |-> "malformed"]] }
    \cup { [text |-> [kind |-> "json", json |-> j]] : j \in AdvisorJsons }

\* JSON.parse(response.text || "{}"): defined unless the text is not JSON
ParseFails(text) == text.kind = "malformed"

JSONParse(text) == IF text.kind = "json" THEN text.json ELSE << >>

-----------------------------------------------------------------------------
(* services/geminiService.ts: the three stages *)

Pending == [kind |-> "pending"]
Resolved(v) == [kind |-> "resolved", value |-> v]
Rejected(e) == [kind |-> "rejected", error |-> e]

\* what a stage throws: the stage it came from and why
GenerationFailure(stage) == [stage |-> stage, kind |-> "generation"]
ParseFailure(stage) == [stage |-> stage, kind |-> "parse"]

\* what the catch block sees when the onStatusUpdate callback itself throws
CallbackFailure == [stage |-> "onStatusUpdate", kind |-> "callback"]

StatusAgent1 == "Agent 1 (Analyzer): Detecting visual symptoms..."
StatusAgent2 == "Agent 2 (Classifier): Researching trusted .edu/.gov databases..."
StatusAgent3 == "Agent 3 (Advisor): Formulating treatment plan..."

\* the sources loop of runClassifierAgent
ExtractSources(chunks) ==
    LET usable(ch) == Has(ch, "web") /\ Has(ch.web, "uri") /\ Has(ch.web, "title")
        kept == SelectSeq(chunks, usable)
    IN  [i \in 1..Len(kept) |-> [title |-> kept[i].web.title, uri |-> kept[i].web.uri]]

\* let confidence = json.confidence || 0
RawConfidence(json) == NumOrElse(json, "confidence", 0)

\* the scale test with < 1 in place of <= 1
NormalizeConfidence_below1(confidence) ==
    IF confidence < Unit /\ confidence > 0
        THEN RoundTimes100(confidence)
        ELSE confidence

\* if (confidence <= 1 && confidence > 0) confidence = Math.round(confidence * 100)
NormalizeConfidence(confidence) ==
    IF confidence <= Unit /\ confidence > 0
        THEN RoundTimes100(confidence)
        ELSE confidence

\* return { ...json, confidence, sources }
runClassifierAgent(response) ==
    LET json == JSONParse(response.text)
    IN  [k \in DOMAIN json \cup {"confidence", "sources"} |->
            IF k = "confidence" THEN NormalizeConfidence(RawConfidence(json))
            ELSE IF k = "sources" THEN ExtractSources(response.chunks)
            ELSE json[k]]

\* if (diagnosis === "Not a Plant") return { treatment: [], prevention: [] }
AdvisorShortCircuits(classification) ==
    Has(classification, "diagnosis") /\ classification.diagnosis = "Not a Plant"

\* return JSON.parse(response.text || "{}")
runAdvisorAgent(response) == JSONParse(response.text)

-----------------------------------------------------------------------------
(* services/geminiService.ts: the orchestrator analyzePlantImage *)

NotAPlantResult ==
    [diagnosis |-> "Not a Plant",
     confidence |-> 0,
     confidenceReason |-> "Agent 1 could not detect valid plant structures.",
     treatment |-> << >>,
     prevention |-> << >>]

\* classification.missingInfo && classification.missingInfo.length > 0
NeedsClarification(classification) ==
    Has(classification, "missingInfo") /\ Len(classification.missingInfo) > 0

\* the halt result passing the Classifier's citations on
HaltResult_withSources(classification) ==
    [diagnosis |-> StrOrElse(classification, "diagnosis", "Ambiguous"),
     confidence |-> NumOrElse(classification, "confidence", 0),
     confidenceReason |->
        StrOrElse(classification, "confidenceReason", "More information required."),
     treatment |-> << >>,
     prevention |-> << >>,
     missingInfo |-> classification.missingInfo,
     sources |-> classification.sources]

HaltResult(classification) ==
    [diagnosis |-> StrOrElse(classification, "diagnosis", "Ambiguous"),
     confidence |-> NumOrElse(classification, "confidence", 0),
     confidenceReason |->
        StrOrElse(classification, "confidenceReason", "More information required."),
     treatment |-> << >>,
     prevention |-> << >>,
     missingInfo |-> classification.missingInfo,
     sources |-> << >>]

\* the combined result spreading the whole classification, questions included
CombineResults_spread(classification, advice) ==
    [treatment |-> ListOrEmpty(advice, "treatment"),
     prevention |-> ListOrEmpty(advice, "prevention")] @@ classification

CombineResults(classification, advice) ==
    LET base == [treatment |-> ListOrEmpty(advice, "treatment"),
                 prevention |-> ListOrEmpty(advice, "prevention"),
                 sources |-> classification.sources]
        d == WithProp(base, "diagnosis", classification, "diagnosis")
        c == WithProp(d, "confidence", classification, "confidence")
    IN  WithProp(c, "confidenceReason", classification, "confidenceReason")

\* a catch block that rethrows what it caught
CatchBlock_rethrow(error) == error

\* catch (error) { console.error(...); throw new Error("Analysis failed."); }
CatchBlock(error) == [message |-> "Analysis failed."]

IdleRun ==
    [pc |-> "idle", request |-> << >>, log |-> << >>, visualDescription |-> << >>,
     classifierResponse |-> << >>, classification |-> << >>,
     advisorResponse |-> << >>, caught |-> << >>, outcome |-> Pending]

Logged(r, e) == [r EXCEPT !.log = Append(@, e)]

\* the callback was supplied and throws when it is called
StatusFails(r) == r.request.onStatus /\ r.request.callbackFails

\* if (onStatusUpdate) onStatusUpdate(label), for a callback that returns
OnStatusUpdate(r, label) == IF r.request.onStatus THEN Logged(r, label) ELSE r

Settle(r, v) == [r EXCEPT !.pc = "settled", !.outcome = Resolved(v)]

Throw(r, error) ==
    [r EXCEPT !.pc = "settled", !.caught = error,
              !.outcome = Rejected(CatchBlock(error))]

\* the status calls sit inside the try block: a callback that throws is caught
\* like a stage failure, before the stage's call is issued
StatusThrown(r) == Throw(Logged(r, "status callback failed"), CallbackFailure)

\* the Classifier's call issued together with the Analyzer's, not awaited
analyzePlantImage_fanOut(request) ==
    LET r0 == [IdleRun EXCEPT !.request = request]
        r == OnStatusUpdate(r0, StatusAgent1)
    IN  IF StatusFails(r0)
            THEN StatusThrown(r0)
            ELSE [Logged(Logged(r, "call Analyzer"), "call Classifier")
                    EXCEPT !.pc = "Analyzer"]

\* entry, up to the await of the Analyzer's generation call
analyzePlantImage(request) ==
    LET r0 == [IdleRun EXCEPT !.request = request]
        r == OnStatusUpdate(r0, StatusAgent1)
    IN  IF StatusFails(r0)
            THEN StatusThrown(r0)
            ELSE [Logged(r, "call Analyzer") EXCEPT !.pc = "Analyzer"]

\* the Analyzer's call resolved: up to the await of the Classifier's call
AnalyzerResolved(r, text) ==
    LET r1 == [Logged(r, "resolve Analyzer") EXCEPT !.visualDescription = text]
    IN  IF IncludesNotAPlant(text)
            THEN Settle(r1, NotAPlantResult)
            ELSE IF StatusFails(r1)
                    THEN StatusThrown(r1)
                    ELSE [Logged(OnStatusUpdate(r1, StatusAgent2), "call Classifier")
                            EXCEPT !.pc = "Classifier"]

\* the Advisor's label delivered only after its call has been issued
AdvisorStep_statusAfterCall(r) ==
    LET r1 == Logged(r, "enter Advisor")
    IN  IF StatusFails(r)
            THEN StatusThrown(r)
            ELSE IF AdvisorShortCircuits(r.classification)
                    THEN Settle(OnStatusUpdate(r1, StatusAgent3),
                                CombineResults(r.classification,
                                        [treatment |-> << >>, prevention |-> << >>]))
                    ELSE [OnStatusUpdate(Logged(r1, "call Advisor"), StatusAgent3)
                            EXCEPT !.pc = "Advisor"]

\* the Advisor step: runAdvisorAgent is entered, and calls the service unless
\* the diagnosis is "Not a Plant"
AdvisorStep(r) ==
    LET r1 == Logged(OnStatusUpdate(r, StatusAgent3), "enter Advisor")
    IN  IF StatusFails(r)
            THEN StatusThrown(r)
            ELSE IF AdvisorShortCircuits(r.classification)
                    THEN Settle(r1, CombineResults(r.classification,
                                        [treatment |-> << >>, prevention |-> << >>]))
                    ELSE [Logged(r1, "call Advisor") EXCEPT !.pc = "Advisor"]

\* the Classifier's call resolved: up to the await of the Advisor's call
ClassifierResolved(r, response) ==
    LET r1 == [Logged(r, "resolve Classifier") EXCEPT !.classifierResponse = response]
    IN  IF ParseFails(response.text)
            THEN Throw(r1, ParseFailure("Classifier"))
            ELSE LET r2 == [r1 EXCEPT !.classification = runClassifierAgent(response)]
                 IN  IF NeedsClarification(r2.classification)
                        THEN Settle(r2, HaltResult(r2.classification))
                        ELSE AdvisorStep(r2)

\* the Advisor's call resolved
AdvisorResolved(r, response) ==
    LET r1 == [Logged(r, "resolve Advisor") EXCEPT !.advisorResponse = response]
    IN  IF ParseFails(response.text)
            THEN Throw(r1, ParseFailure("Advisor"))
            ELSE Settle(r1, CombineResults(r1.classification, runAdvisorAgent(response)))

\* a failed call that is issued once more before the run gives up
StageRejected_retryOnce(r) ==
    IF Count(r.log, "reject " \o r.pc) = 0
        THEN Logged(Logged(r, "reject " \o r.pc), "call " \o r.pc)
        ELSE Throw(Logged(r, "reject " \o r.pc), GenerationFailure(r.pc))

\* the generation call of the stage in flight failed
StageRejected(r) == Throw(Logged(r, "reject " \o r.pc), GenerationFailure(r.pc))

-----------------------------------------------------------------------------
(* App: state and handlers *)

\* two callers of analyzePlantImage whose invocations overlap
SessionIds == { "first", "second" }

NoModal == [show |-> FALSE, title |-> "", type |-> "info"]

\* showModal(title, message, type = 'error')
showModal(title) == [show |-> TRUE, title |-> title, type |-> "error"]

NotesTexts == { <<"yellow spots">> }

Answers == { "Skipped", "yes" }

UserAnswersMarker == "[USER ANSWERS:"

\* ClarificationModal.handleSubmit: questions.map(q => `Q: ${q} A: ${answer}`)
FormatAnswers(questions, answer) ==
    [i \in 1..Len(questions) |-> "Q: " \o questions[i] \o " A: " \o answer]

\* overrideNotes ? `${userNotes} [USER ANSWERS: ${overrideNotes}]` : userNotes
EffectiveNotes(notes, override) ==
    IF override # << >>
        THEN notes \o <<UserAnswersMarker>> \o override \o <<"]">>
        ELSE notes

HasUserAnswers(notes) == \E i \in 1..Len(notes) : notes[i] = UserAnswersMarker

\* the main return of App is rendered: no camera, no loading screen, no ResultCard
MainScreen ==
    /\ ~isCameraOpen
    /\ ~isAnalyzing
    /\ ~(view = "RESULT" /\ currentResult # << >>)

\* the ChatInterface component before it is mounted
NoChat ==
    [ open |-> FALSE, messages |-> << >>, input |-> "", isLoading |-> FALSE,
      chatSession |-> FALSE, pc |-> "idle", fullText |-> << >>, sends |-> 0,
      chunks |-> 0 ]

\* the Camera component before it is mounted
NoCamera ==
    [ mounted |-> FALSE, instance |-> 0, facingMode |-> "environment",
      capturedImages |-> 0, reading |-> 0, error |-> FALSE, streamRef |-> 0,
      live |-> {}, pending |-> {}, starts |-> 0, handed |-> 0 ]

\* the main screen is not covered by one of the two full-screen modals
Clickable == MainScreen /\ ~modalState.show /\ ~showClarificationModal

InitApp ==
    /\ view = "HOME"
    /\ isCameraOpen = FALSE
    /\ capturedImages = 0
    /\ cameraImages = 0
    /\ history = << >>
    /\ userNotes = << >>
    /\ iotData = FALSE
    /\ isAnalyzing = FALSE
    /\ analysisStatus = "Initializing..."
    /\ currentResult = << >>
    /\ clarificationQuestions = << >>
    /\ showClarificationModal = FALSE
    /\ modalState = NoModal
    /\ overrideNotes = << >>
    /\ run = IdleRun
    /\ interaction = [analyses |-> 0, classifierCalls |-> 0, submissions |-> 0,
                      clarifications |-> 0]
    /\ failureLog = {}
    /\ sessions = [s \in SessionIds |-> IdleRun]
    /\ singleCall = [pc |-> "idle", response |-> << >>, outcome |-> Pending]
    /\ isConnectingIoT = FALSE
    /\ iotRequested = FALSE
    /\ analysisMode = "DIAGNOSIS"
    /\ camera = NoCamera
    /\ chat = NoChat

Init == InitApp /\ normalization = [json |-> << >>, passes |-> << >>]

appVars == << view, isCameraOpen, capturedImages, cameraImages, history, userNotes, iotData,
              isAnalyzing, analysisStatus, currentResult, clarificationQuestions,
              showClarificationModal, modalState, isConnectingIoT, analysisMode >>

startNewScan ==
    /\ Clickable
    /\ capturedImages' = 0
    /\ cameraImages' = 0
    /\ userNotes' = << >>
    /\ analysisMode' = "DIAGNOSIS"
    /\ iotData' = FALSE
    /\ iotRequested' = FALSE
    /\ isCameraOpen' = TRUE
    /\ showClarificationModal' = FALSE
    /\ UNCHANGED << view, history, isAnalyzing, analysisStatus, currentResult,
                    clarificationQuestions, modalState, overrideNotes, run,
                    interaction, failureLog, normalization, sessions, singleCall, isConnectingIoT, camera, chat >>

\* Camera onClose: the Camera is unmounted and its list is gone
closeCamera ==
    /\ isCameraOpen
    /\ isCameraOpen' = FALSE
    /\ cameraImages' = 0
    /\ UNCHANGED << view, capturedImages, history, userNotes, iotData, isAnalyzing,
                    analysisStatus, currentResult, clarificationQuestions,
                    showClarificationModal, modalState, overrideNotes, run,
                    interaction, failureLog, normalization, sessions, singleCall, isConnectingIoT, iotRequested, analysisMode, camera, chat >>

\* const MAX_IMAGES = 3
MAX_IMAGES == 3

\* Camera.takePhoto: one more image, unless the limit is reached
takePhoto ==
    /\ isCameraOpen
    /\ cameraImages < MaxCaptured
    /\ cameraImages' = IF cameraImages >= MAX_IMAGES THEN cameraImages
                                                     ELSE cameraImages + 1
    /\ UNCHANGED << view, isCameraOpen, capturedImages, history, userNotes, iotData,
                    isAnalyzing, analysisStatus, currentResult, clarificationQuestions,
                    showClarificationModal, modalState, overrideNotes, run,
                    interaction, failureLog, normalization, sessions, singleCall, isConnectingIoT, iotRequested, analysisMode, camera, chat >>

\* Camera.handleFileUpload: the file read is added to the list
handleFileUpload ==
    /\ isCameraOpen
    /\ cameraImages < MaxCaptured
    /\ cameraImages' = cameraImages + 1
    /\ UNCHANGED << view, isCameraOpen, capturedImages, history, userNotes, iotData,
                    isAnalyzing, analysisStatus, currentResult, clarificationQuestions,
                    showClarificationModal, modalState, overrideNotes, run,
                    interaction, failureLog, normalization, sessions, singleCall, isConnectingIoT, iotRequested, analysisMode, camera, chat >>

\* App.handleCapture(images), the Camera's onCapture
handleCapture(images) ==
    /\ capturedImages' = images
    /\ isCameraOpen' = FALSE
    /\ view' = "SCAN"

\* Camera.handleFinish (Done): if (capturedImages.length > 0) onCapture(...);
\* the App closes the Camera, which is unmounted
handleFinish ==
    /\ isCameraOpen
    /\ IF cameraImages > 0
         THEN handleCapture(cameraImages) /\ cameraImages' = 0
         ELSE UNCHANGED << capturedImages, isCameraOpen, view, cameraImages >>
    /\ UNCHANGED << history, userNotes, iotData, isAnalyzing, analysisStatus,
                    currentResult, clarificationQuestions, showClarificationModal,
                    modalState, overrideNotes, run, interaction, failureLog, normalization, sessions, singleCall, isConnectingIoT, iotRequested, analysisMode, camera, chat >>

setUserNotes ==
    /\ Clickable
    /\ view = "SCAN"
    /\ \E notes \in NotesTexts : userNotes' = notes
    /\ UNCHANGED << view, isCameraOpen, capturedImages, cameraImages, history, iotData,
                    isAnalyzing, analysisStatus, currentResult,
                    clarificationQuestions, showClarificationModal, modalState,
                    overrideNotes, run, interaction, failureLog, normalization, sessions, singleCall, isConnectingIoT, iotRequested, analysisMode, camera, chat >>

\* the bottom navigation and the ResultCard's Back button
setView ==
    /\ \/ Clickable /\ view' \in {"HOME", "HISTORY"}
       \/ ~isCameraOpen /\ ~isAnalyzing /\ view = "RESULT" /\ currentResult # << >>
            /\ view' = "HOME"
    /\ UNCHANGED << isCameraOpen, capturedImages, cameraImages, history, userNotes, iotData,
                    isAnalyzing, analysisStatus, currentResult,
                    clarificationQuestions, showClarificationModal, modalState,
                    overrideNotes, run, interaction, failureLog, normalization, sessions, singleCall, isConnectingIoT, iotRequested, analysisMode, camera, chat >>

\* a click on a history item
openHistoryItem ==
    /\ Clickable
    /\ view \in {"HOME", "HISTORY"}
    /\ \E i \in 1..Len(history) : currentResult' = history[i]
    /\ view' = "RESULT"
    /\ UNCHANGED << isCameraOpen, capturedImages, cameraImages, history, userNotes, iotData,
                    isAnalyzing, analysisStatus, clarificationQuestions,
                    showClarificationModal, modalState, overrideNotes, run,
                    interaction, failureLog, normalization, sessions, singleCall, isConnectingIoT, iotRequested, analysisMode, camera, chat >>

\* MessageModal onClose
closeModal ==
    /\ MainScreen
    /\ modalState.show
    /\ modalState' = [modalState EXCEPT !.show = FALSE]
    /\ UNCHANGED << view, isCameraOpen, capturedImages, cameraImages, history, userNotes,
                    iotData, isAnalyzing, analysisStatus, currentResult,
                    clarificationQuestions, showClarificationModal, overrideNotes,
                    run, interaction, failureLog, normalization, sessions, singleCall, isConnectingIoT, iotRequested, analysisMode, camera, chat >>

-----------------------------------------------------------------------------
(* App: runAnalysis *)

StatusScanning == "Agent 1 (Analyzer): Scanning visual symptoms..."

StatusLabels == { StatusAgent1, StatusAgent2, StatusAgent3 }

\* setAnalysisStatus is the onStatusUpdate callback: the last label emitted
LatestStatus(log, current) ==
    LET at == { i \in 1..Len(log) : log[i] \in StatusLabels }
    IN  IF at = {} THEN current
        ELSE log[CHOOSE i \in at : \A j \in at : j <= i]

\* the AnalysisResult that runAnalysis builds from the response
AnalysisResultOf(response, r) ==
    LET base == [additionalImages |-> r.request.images,
                 description |-> r.request.userNotes,
                 treatment |-> response.treatment,
                 prevention |-> response.prevention,
                 confidence |-> response.confidence,
                 iotData |-> r.request.iotData]
        d == WithProp(base, "diagnosis", response, "diagnosis")
        c == WithProp(d, "confidenceReason", response, "confidenceReason")
    IN  WithProp(c, "sources", response, "sources")

\* response.diagnosis === "Not a Plant" || response.confidence === 0
IsNoPlantResponse(response) ==
    \/ Has(response, "diagnosis") /\ response.diagnosis = "Not a Plant"
    \/ response.confidence = 0

\* the clarification test without its !overrideNotes conjunct
OpensClarification_unguarded(response, override) ==
    Has(response, "missingInfo") /\ Len(response.missingInfo) > 0

\* response.missingInfo && response.missingInfo.length > 0 && !overrideNotes
OpensClarification(response, override) ==
    /\ Has(response, "missingInfo")
    /\ Len(response.missingInfo) > 0
    /\ override = << >>

\* runAnalysis without its early return for an empty image list
runAnalysis_noImageCheck(override, started) ==
    LET request == [images |-> capturedImages,
                    userNotes |-> EffectiveNotes(userNotes, override),
                    iotData |-> iotData,
                    onStatus |-> TRUE, callbackFails |-> FALSE]
        r == analyzePlantImage(request)
    IN  /\ isAnalyzing' = TRUE
        /\ analysisStatus' = LatestStatus(r.log, StatusScanning)
        /\ overrideNotes' = override
        /\ run' = r
        /\ interaction' = started

\* runAnalysis up to the await: the early return, or the start of a run
runAnalysis(override, started) ==
    IF capturedImages = 0
        THEN UNCHANGED << isAnalyzing, analysisStatus, overrideNotes, run, interaction >>
        ELSE LET request == [images |-> capturedImages,
                             userNotes |-> EffectiveNotes(userNotes, override),
                             iotData |-> iotData,
                             onStatus |-> TRUE, callbackFails |-> FALSE]
                 r == analyzePlantImage(request)
             IN  /\ isAnalyzing' = TRUE
                 /\ analysisStatus' = LatestStatus(r.log, StatusScanning)
                 /\ overrideNotes' = override
                 /\ run' = r
                 /\ interaction' = started

\* the two mode buttons of the scan view
setAnalysisMode ==
    /\ Clickable
    /\ view = "SCAN"
    /\ \E mode \in { "DIAGNOSIS", "IDENTIFICATION" } : analysisMode' = mode
    /\ UNCHANGED << view, isCameraOpen, capturedImages, cameraImages, history,
                    userNotes, iotData, isAnalyzing, analysisStatus, currentResult,
                    clarificationQuestions, showClarificationModal, modalState,
                    overrideNotes, run, interaction, failureLog, normalization,
                    sessions, singleCall, isConnectingIoT, iotRequested, camera, chat >>

\* connectIoT: the button is shown while there is no snapshot and is disabled
\* while a connection is pending; the timer is set
connectIoT ==
    /\ Clickable
    /\ view = "SCAN"
    /\ analysisMode = "DIAGNOSIS"
    /\ ~iotData
    /\ ~isConnectingIoT
    /\ isConnectingIoT' = TRUE
    /\ iotRequested' = TRUE
    /\ UNCHANGED << view, isCameraOpen, capturedImages, cameraImages, history,
                    userNotes, iotData, isAnalyzing, analysisStatus, currentResult,
                    clarificationQuestions, showClarificationModal, modalState,
                    overrideNotes, run, interaction, failureLog, normalization,
                    sessions, singleCall, analysisMode, camera, chat >>

\* the callback of setTimeout(..., 1500): nothing cancels it
connectTimerFires ==
    /\ isConnectingIoT
    /\ iotData' = TRUE
    /\ isConnectingIoT' = FALSE
    /\ UNCHANGED << view, isCameraOpen, capturedImages, cameraImages, history,
                    userNotes, isAnalyzing, analysisStatus, currentResult,
                    clarificationQuestions, showClarificationModal, modalState,
                    overrideNotes, run, interaction, failureLog, normalization,
                    sessions, singleCall, iotRequested, analysisMode, camera, chat >>

\* Disconnect: setIotData(null)
disconnectIoT ==
    /\ Clickable
    /\ view = "SCAN"
    /\ analysisMode = "DIAGNOSIS"
    /\ iotData
    /\ iotData' = FALSE
    /\ UNCHANGED << view, isCameraOpen, capturedImages, cameraImages, history,
                    userNotes, isAnalyzing, analysisStatus, currentResult,
                    clarificationQuestions, showClarificationModal, modalState,
                    overrideNotes, run, interaction, failureLog, normalization,
                    sessions, singleCall, isConnectingIoT, iotRequested, analysisMode, camera, chat >>

\* runAnalysis without its finally block: the early returns reset the flag,
\* the catch block and the last branch do not
runAnalysisSettled_noFinally(r) ==
    IF r.outcome.kind = "rejected"
         THEN /\ modalState' = showModal("Analysis Failed")
              /\ UNCHANGED << view, history, currentResult, clarificationQuestions,
                              showClarificationModal, isAnalyzing >>
       ELSE IF IsNoPlantResponse(r.outcome.value)
         THEN /\ modalState' = showModal("No Plant Detected")
              /\ isAnalyzing' = FALSE
              /\ UNCHANGED << view, history, currentResult, clarificationQuestions,
                              showClarificationModal >>
       ELSE IF OpensClarification(r.outcome.value, overrideNotes)
         THEN /\ clarificationQuestions' = r.outcome.value.missingInfo
              /\ showClarificationModal' = TRUE
              /\ isAnalyzing' = FALSE
              /\ UNCHANGED << view, history, currentResult, modalState >>
       ELSE LET result == AnalysisResultOf(r.outcome.value, r)
            IN  /\ history' = <<result>> \o history
                /\ currentResult' = result
                /\ view' = "RESULT"
                /\ UNCHANGED << clarificationQuestions, showClarificationModal,
                                modalState, isAnalyzing >>

\* runAnalysis after the await: r is the run as it has settled
runAnalysisSettled(r) ==
    /\ isAnalyzing' = FALSE
    /\ IF r.outcome.kind = "rejected"
         THEN /\ modalState' = showModal("Analysis Failed")
              /\ UNCHANGED << view, history, currentResult, clarificationQuestions,
                              showClarificationModal >>
       ELSE IF IsNoPlantResponse(r.outcome.value)
         THEN /\ modalState' = showModal("No Plant Detected")
              /\ UNCHANGED << view, history, currentResult, clarificationQuestions,
                              showClarificationModal >>
       ELSE IF OpensClarification(r.outcome.value, overrideNotes)
         THEN /\ clarificationQuestions' = r.outcome.value.missingInfo
              /\ showClarificationModal' = TRUE
              /\ UNCHANGED << view, history, currentResult, modalState >>
       ELSE LET result == AnalysisResultOf(r.outcome.value, r)
            IN  /\ history' = <<result>> \o history
                /\ currentResult' = result
                /\ view' = "RESULT"
                /\ UNCHANGED << clarificationQuestions, showClarificationModal,
                                modalState >>

\* one step of the run in progress, r being the run after the step
Step(r) ==
    /\ run' = r
    /\ analysisStatus' = LatestStatus(r.log, analysisStatus)
    /\ failureLog' =
         IF r.caught # << >>
            THEN failureLog \cup {[caught |-> r.caught, raised |-> r.outcome.error]}
            ELSE failureLog
    /\ interaction' =
         [interaction EXCEPT
            !.classifierCalls = @ + (IF r.pc = "Classifier" THEN 1 ELSE 0),
            !.clarifications =
                @ + (IF /\ r.pc = "settled"
                        /\ r.outcome.kind = "resolved"
                        /\ ~IsNoPlantResponse(r.outcome.value)
                        /\ OpensClarification(r.outcome.value, overrideNotes)
                     THEN 1 ELSE 0)]
    /\ IF r.pc = "settled"
         THEN runAnalysisSettled(r)
         ELSE UNCHANGED << view, history, currentResult, clarificationQuestions,
                           showClarificationModal, modalState, isAnalyzing >>
    /\ UNCHANGED << isCameraOpen, capturedImages, cameraImages, userNotes, iotData, overrideNotes,
                    normalization, sessions, singleCall, isConnectingIoT, iotRequested, analysisMode, camera, chat >>

handleAnalyze ==
    /\ Clickable
    /\ view = "SCAN"
    /\ capturedImages = 0 \/ interaction.analyses < MaxAnalyses
    /\ runAnalysis(<< >>, [analyses |-> interaction.analyses + 1,
                           classifierCalls |-> 0, submissions |-> 0,
                           clarifications |-> 0])
    /\ UNCHANGED << view, isCameraOpen, capturedImages, cameraImages, history, userNotes, iotData,
                    currentResult, clarificationQuestions, showClarificationModal,
                    modalState, failureLog, normalization, sessions, singleCall, isConnectingIoT, iotRequested, analysisMode, camera, chat >>

handleClarificationSubmit ==
    /\ MainScreen
    /\ showClarificationModal
    /\ showClarificationModal' = FALSE
    /\ \E answer \in Answers :
         runAnalysis(FormatAnswers(clarificationQuestions, answer),
                     [interaction EXCEPT !.submissions = @ + 1])
    /\ UNCHANGED << view, isCameraOpen, capturedImages, cameraImages, history, userNotes, iotData,
                    currentResult, clarificationQuestions, modalState, failureLog, normalization, sessions, singleCall, isConnectingIoT, iotRequested, analysisMode, camera, chat >>

\* the responses explored when the App drives the pipeline: every kind of
\* response, one value of each kind
AppAnalyzerTexts == { <<"chlorosis">>, <<"blurry", "NOT_A_PLANT">> }

AppClassifierResponses ==
    { rsp \in ClassifierResponses :
        rsp.text.kind = "json" =>
            /\ Has(rsp.text.json, "confidence")
            /\ rsp.text.json.confidence \in {0, 870}
            /\ Has(rsp.text.json, "confidenceReason")
            /\ Has(rsp.text.json, "diagnosis")
            /\ ~(Has(rsp.text.json, "missingInfo") /\ rsp.text.json.missingInfo = << >>)
            /\ rsp.chunks = <<chunkA, chunkNoTitle, chunkA2>> }

AppAdvisorResponses ==
    { rsp \in AdvisorResponses :
        rsp.text.kind = "json" =>
            /\ Has(rsp.text.json, "treatment")
            /\ Has(rsp.text.json, "prevention")
            /\ Len(rsp.text.json.treatment) = Len(rsp.text.json.prevention) }

analyzerResolves ==
    /\ run.pc = "Analyzer"
    /\ isAnalyzing
    /\ \E text \in AppAnalyzerTexts : Step(AnalyzerResolved(run, text))

classifierResolves ==
    /\ run.pc = "Classifier"
    /\ isAnalyzing
    /\ \E response \in AppClassifierResponses : Step(ClassifierResolved(run, response))

advisorResolves ==
    /\ run.pc = "Advisor"
    /\ isAnalyzing
    /\ \E response \in AppAdvisorResponses : Step(AdvisorResolved(run, response))

stageRejects ==
    /\ run.pc \in {"Analyzer", "Classifier", "Advisor"}
    /\ isAnalyzing
    /\ Step(StageRejected(run))

Next ==
    \/ startNewScan
    \/ closeCamera
    \/ takePhoto
    \/ handleFileUpload
    \/ handleFinish
    \/ setUserNotes
    \/ setView
    \/ openHistoryItem
    \/ closeModal
    \/ handleAnalyze
    \/ handleClarificationSubmit
    \/ analyzerResolves
    \/ classifierResolves
    \/ advisorResolves
    \/ stageRejects

Spec == Init /\ [][Next]_vars

\* the App while a scan is prepared: camera, notes, navigation and the sensor
NextPrepare ==
    \/ startNewScan
    \/ closeCamera
    \/ takePhoto
    \/ handleFileUpload
    \/ handleFinish
    \/ setUserNotes
    \/ setView
    \/ setAnalysisMode
    \/ connectIoT
    \/ connectTimerFires
    \/ disconnectIoT

SpecPrepare == Init /\ [][NextPrepare]_vars

\* every generation call that is awaited comes back: it resolves or it fails
GenerationCallReturns ==
    analyzerResolves \/ classifierResolves \/ advisorResolves \/ stageRejects

SpecLive == Spec /\ WF_vars(GenerationCallReturns)

-----------------------------------------------------------------------------
(* analyzePlantImage called directly, with every response of every stage *)

\* onStatusUpdate: not supplied, supplied, or supplied and throwing
StatusCallbacks ==
    { [onStatus |-> FALSE, callbackFails |-> FALSE],
      [onStatus |-> TRUE, callbackFails |-> FALSE],
      [onStatus |-> TRUE, callbackFails |-> TRUE] }

\* the stages pass the images on as they are: one image stands for any list
RunRequests ==
    { [images |-> n, userNotes |-> t, iotData |-> i,
       onStatus |-> o.onStatus, callbackFails |-> o.callbackFails] :
        n \in {1},
        t \in { <<"yellow spots">>,
                EffectiveNotes(<<"yellow spots">>,
                               FormatAnswers(<<"Does it smell?">>, "yes")) },
        i \in {FALSE},
        o \in StatusCallbacks }

\* one step of a run that no App is waiting for
RunStep(r) ==
    /\ run' = r
    /\ failureLog' =
         IF r.caught # << >>
            THEN failureLog \cup {[caught |-> r.caught, raised |-> r.outcome.error]}
            ELSE failureLog
    /\ UNCHANGED << appVars, overrideNotes, interaction, normalization, sessions, singleCall, iotRequested, camera, chat >>

callAnalyzePlantImage ==
    /\ run.pc \in {"idle", "settled"}
    /\ \E request \in RunRequests : RunStep(analyzePlantImage(request))

analyzerCallResolves ==
    /\ run.pc = "Analyzer"
    /\ \E text \in AnalyzerTexts : RunStep(AnalyzerResolved(run, text))

classifierCallResolves ==
    /\ run.pc = "Classifier"
    /\ \E response \in ClassifierResponses : RunStep(ClassifierResolved(run, response))

advisorCallResolves ==
    /\ run.pc = "Advisor"
    /\ \E response \in AdvisorResponses : RunStep(AdvisorResolved(run, response))

stageCallRejects ==
    /\ run.pc \in {"Analyzer", "Classifier", "Advisor"}
    /\ RunStep(StageRejected(run))

NextRun ==
    \/ callAnalyzePlantImage
    \/ analyzerCallResolves
    \/ classifierCallResolves
    \/ advisorCallResolves
    \/ stageCallRejects

SpecRun == Init /\ [][NextRun]_vars

-----------------------------------------------------------------------------
(* two invocations of analyzePlantImage in flight together: each holds its   *)
(* request and its const locals (visualDescription, classification, advice); *)
(* the module holds nothing but the client *)

ConcurrentRequests == RunRequests

\* the locals of every invocation kept in one place, a later classification
\* replacing the one an invocation in flight already holds
SessionStep_sharedLocals(s, r) ==
    /\ sessions' =
         [t \in SessionIds |->
            IF t = s THEN r
            ELSE IF r.classification # << >> /\ sessions[t].classification # << >>
                    THEN [sessions[t] EXCEPT !.classification = r.classification]
                    ELSE sessions[t]]
    /\ UNCHANGED << appVars, overrideNotes, run, interaction, failureLog,
                    normalization, singleCall, iotRequested, camera, chat >>

\* one step of the invocation of session s, r being the invocation after it
SessionStep(s, r) ==
    /\ sessions' = [sessions EXCEPT ![s] = r]
    /\ UNCHANGED << appVars, overrideNotes, run, interaction, failureLog,
                    normalization, singleCall, iotRequested, camera, chat >>

sessionCalls ==
    \E s \in SessionIds :
        /\ sessions[s].pc = "idle"
        /\ \E request \in ConcurrentRequests : SessionStep(s, analyzePlantImage(request))

sessionAnalyzerResolves ==
    \E s \in SessionIds :
        /\ sessions[s].pc = "Analyzer"
        /\ \E text \in AppAnalyzerTexts : SessionStep(s, AnalyzerResolved(sessions[s], text))

sessionClassifierResolves ==
    \E s \in SessionIds :
        /\ sessions[s].pc = "Classifier"
        /\ \E response \in AppClassifierResponses :
             SessionStep(s, ClassifierResolved(sessions[s], response))

sessionAdvisorResolves ==
    \E s \in SessionIds :
        /\ sessions[s].pc = "Advisor"
        /\ \E response \in AppAdvisorResponses :
             SessionStep(s, AdvisorResolved(sessions[s], response))

sessionStageRejects ==
    \E s \in SessionIds :
        /\ sessions[s].pc \in {"Analyzer", "Classifier", "Advisor"}
        /\ SessionStep(s, StageRejected(sessions[s]))

NextConcurrent ==
    \/ sessionCalls
    \/ sessionAnalyzerResolves
    \/ sessionClassifierResolves
    \/ sessionAdvisorResolves
    \/ sessionStageRejects

SpecConcurrent == Init /\ [][NextConcurrent]_vars

-----------------------------------------------------------------------------
(* The confidence normalization of runClassifierAgent, applied on its own *)

ProbeRaws == (-MaxFine..MaxFine) \cup { Num(k) : k \in -MaxWhole..MaxWhole }

\* the parsed response: confidence reported, or missing
ProbeJsons == { << >> } \cup { [confidence |-> c] : c \in ProbeRaws }

InitNormalize ==
    /\ InitApp
    /\ normalization \in { [json |-> j, passes |-> << >>] : j \in ProbeJsons }

\* the first pass normalizes the response, a later pass the result before it
normalizeConfidence ==
    /\ Len(normalization.passes) < MaxPasses
    /\ LET json == IF normalization.passes = << >>
                      THEN normalization.json
                      ELSE [confidence |->
                               normalization.passes[Len(normalization.passes)]]
       IN  normalization' =
              [normalization EXCEPT
                 !.passes = Append(@, NormalizeConfidence(RawConfidence(json)))]
    /\ UNCHANGED << appVars, overrideNotes, run, interaction, failureLog, sessions, singleCall, iotRequested, camera, chat >>

NextNormalize == normalizeConfidence

SpecNormalize == InitNormalize /\ [][NextNormalize]_vars

-----------------------------------------------------------------------------
(* The single-call analyzePlantImage of the README (src/unnamed/part_004):   *)
(* one generation call, citations deduplicated, confidence capped *)

\* grounding chunks naming n distinct pages
DistinctChunks(n) ==
    [i \in 1..n |->
        [web |-> [uri |-> "U" \o ToString(i), title |-> "Page " \o ToString(i)]]]

SingleCallChunks ==
    { DistinctChunks(n) : n \in 0..MaxUniqueSources }
        \cup { <<chunkA, chunkNoTitle, chunkA2>> }

\* result.confidence as the model may report it (thousandths), or missing
SingleCallJsons ==
    { [diagnosis |-> "Early Blight", treatment |-> << >>, prevention |-> << >>] }
    \cup { [diagnosis |-> "Early Blight", confidence |-> c,
            treatment |-> << >>, prevention |-> << >>] :
            c \in RawConfidences \cup { Num(n) : n \in 97..101 } \cup { 99500 } }

SingleCallResponses ==
    { [text |-> [kind |-> "empty"], chunks |-> << >>],
      [text |-> [kind |-> "malformed"], chunks |-> << >>] }
    \cup { [text |-> [kind |-> "json", json |-> j], chunks |-> g] :
              j \in SingleCallJsons, g \in SingleCallChunks }

\* Array.from(new Map(sources.map(item => [item.uri, item])).values()): a URI
\* keeps the place of its first entry and the value of its last one
UniqueSources(sources) ==
    LET firstAt == { i \in 1..Len(sources) :
                        \A j \in 1..(i - 1) : sources[j].uri # sources[i].uri }
        lastOf(i) == CHOOSE k \in 1..Len(sources) :
                        /\ sources[k].uri = sources[i].uri
                        /\ \A l \in (k + 1)..Len(sources) : sources[l].uri # sources[i].uri
        keep == SelectSeq([i \in 1..Len(sources) |-> i], LAMBDA i : i \in firstAt)
    IN  [n \in 1..Len(keep) |-> sources[lastOf(keep[n])]]

\* list.slice(0, n)
SliceFirst(list, n) == SubSeq(list, 1, IF Len(list) < n THEN Len(list) ELSE n)

\* if (uniqueSources.length <= 10) { if (result.confidence >= 100)
\*     result.confidence = 98; }
ConfidenceCap(result, uniqueSources) ==
    IF /\ Len(uniqueSources) <= 10
       /\ Has(result, "confidence")
       /\ result.confidence >= Num(100)
        THEN [result EXCEPT !.confidence = Num(98)]
        ELSE result

\* the body of the try block once the generation call has resolved
SingleCallOutcome(response) ==
    IF response.text.kind # "json"
        THEN Rejected([message |-> "Failed to analyze image. Please try again."])
        ELSE LET uniqueSources == UniqueSources(ExtractSources(response.chunks))
                 result == ConfidenceCap(JSONParse(response.text), uniqueSources)
             IN  Resolved([sources |-> SliceFirst(uniqueSources, 3)] @@ result)

IdleSingleCall == [pc |-> "idle", response |-> << >>, outcome |-> Pending]

singleCallStarts ==
    /\ singleCall.pc \in {"idle", "settled"}
    /\ singleCall' = [IdleSingleCall EXCEPT !.pc = "awaiting"]
    /\ UNCHANGED << appVars, overrideNotes, run, interaction, failureLog,
                    normalization, sessions, iotRequested, camera, chat >>

singleCallResolves ==
    /\ singleCall.pc = "awaiting"
    /\ \E response \in SingleCallResponses :
         singleCall' = [pc |-> "settled", response |-> response,
                        outcome |-> SingleCallOutcome(response)]
    /\ UNCHANGED << appVars, overrideNotes, run, interaction, failureLog,
                    normalization, sessions, iotRequested, camera, chat >>

singleCallRejects ==
    /\ singleCall.pc = "awaiting"
    /\ singleCall' =
         [pc |-> "settled", response |-> << >>,
          outcome |-> Rejected([message |-> "Failed to analyze image. Please try again."])]
    /\ UNCHANGED << appVars, overrideNotes, run, interaction, failureLog,
                    normalization, sessions, iotRequested, camera, chat >>

NextSingleCall ==
    \/ singleCallStarts
    \/ singleCallResolves
    \/ singleCallRejects

SpecSingleCall == Init /\ [][NextSingleCall]_vars

------------------------------------------------------------------------------
(* The Camera component (src/components/Camera.tsx) on its own.              *)
(* camera.capturedImages is the length of the capturedImages state,          *)
(* camera.streamRef is streamRef.current (0 for null, else the stream),      *)
(* camera.live is the set of acquired streams whose tracks are not stopped,  *)
(* camera.pending the getUserMedia calls that have not settled. A stream is  *)
(* named by the number of the startCamera call that asked for it. Each       *)
(* mounting of the component is an instance with refs of its own.            *)

stopCamera(c) ==
    IF c.streamRef # 0
      THEN [ c EXCEPT !.live = @ \ { c.streamRef }, !.streamRef = 0 ]
      ELSE c

\* startCamera up to its first await
startCamera(c) ==
    LET stopped == stopCamera(c) IN
    [ stopped EXCEPT !.error = FALSE,
                     !.starts = @ + 1,
                     !.pending = @ \cup { [ call |-> stopped.starts + 1,
                                            instance |-> stopped.instance,
                                            attempt |-> "facingMode" ] } ]

\* handleStream, run by the continuation of the request q; the ref it writes
\* is the one of the instance that made the request
handleStream(c, q) ==
    LET acquired == [ c EXCEPT !.live = @ \cup { q.call } ] IN
    IF q.instance = c.instance
      THEN [ acquired EXCEPT !.streamRef = q.call, !.error = FALSE ]
      ELSE acquired

\* the component is removed: the effect's cleanup runs, state updates of
\* pending FileReader loads have no effect any more
unmount(c) ==
    [ stopCamera(c) EXCEPT !.mounted = FALSE, !.reading = 0 ]

cameraUnchanged ==
    UNCHANGED << view, isCameraOpen, capturedImages, cameraImages, history,
                 userNotes, iotData, isAnalyzing, analysisStatus, currentResult,
                 clarificationQuestions, showClarificationModal, modalState,
                 overrideNotes, run, interaction, failureLog, normalization,
                 sessions, singleCall, isConnectingIoT, iotRequested,
                 analysisMode, chat >>

\* the component is mounted: fresh state and refs, the effect calls startCamera
mountCamera ==
    /\ ~camera.mounted
    /\ camera.instance < MaxMounts
    /\ camera.starts < MaxStarts
    /\ camera' = startCamera([ camera EXCEPT !.mounted = TRUE,
                                             !.instance = @ + 1,
                                             !.facingMode = "environment",
                                             !.capturedImages = 0,
                                             !.reading = 0,
                                             !.error = FALSE,
                                             !.streamRef = 0,
                                             !.handed = 0 ])
    /\ cameraUnchanged

\* toggleCamera: facingMode changes, the effect's cleanup and then the effect run
toggleCamera ==
    /\ camera.mounted
    /\ camera.starts < MaxStarts
    /\ camera' = startCamera(stopCamera(
                    [ camera EXCEPT !.facingMode =
                        IF @ = "environment" THEN "user" ELSE "environment" ]))
    /\ cameraUnchanged

\* an awaited getUserMedia call resolves with a stream
getUserMediaResolves ==
    /\ \E q \in camera.pending :
          camera' = handleStream([ camera EXCEPT !.pending = @ \ { q } ], q)
    /\ cameraUnchanged

\* an awaited getUserMedia call rejects: the first attempt is followed by the
\* fallback request, the fallback by setError
getUserMediaRejects ==
    /\ \E q \in camera.pending :
          LET settled == [ camera EXCEPT !.pending = @ \ { q } ] IN
          camera' =
            IF q.attempt = "facingMode"
              THEN [ settled EXCEPT !.pending =
                                     @ \cup { [ q EXCEPT !.attempt = "fallback" ] } ]
            ELSE IF q.instance = camera.instance /\ camera.mounted
              THEN [ settled EXCEPT !.error = TRUE ]
            ELSE settled
    /\ cameraUnchanged

\* the shutter button, enabled without an error and below MAX_IMAGES
Camera_takePhoto ==
    /\ camera.mounted
    /\ ~camera.error
    /\ camera.capturedImages < MAX_IMAGES
    /\ camera' = [ camera EXCEPT !.capturedImages = @ + 1 ]
    /\ cameraUnchanged

\* a file is chosen in the Gallery input: a FileReader starts to load it
Camera_handleFileUpload ==
    /\ camera.mounted
    /\ camera.reading < MaxReading
    /\ camera.capturedImages + camera.reading < MaxCameraImages
    /\ camera' = [ camera EXCEPT !.reading = @ + 1 ]
    /\ cameraUnchanged

\* reader.onloadend: the image is appended
readerLoadEnd ==
    /\ camera.mounted
    /\ camera.reading > 0
    /\ camera' = [ camera EXCEPT !.reading = @ - 1, !.capturedImages = @ + 1 ]
    /\ cameraUnchanged

\* the Done button, rendered with at least one image; onCapture makes the App
\* remove the component
Camera_handleFinish ==
    /\ camera.mounted
    /\ camera.capturedImages > 0
    /\ camera' = unmount([ stopCamera(camera) EXCEPT
                              !.handed = camera.capturedImages ])
    /\ cameraUnchanged

\* the close button: onClose makes the App remove the component
Camera_onClose ==
    /\ camera.mounted
    /\ camera' = unmount(camera)
    /\ cameraUnchanged

NextCamera ==
    \/ mountCamera
    \/ toggleCamera
    \/ getUserMediaResolves
    \/ getUserMediaRejects
    \/ Camera_takePhoto
    \/ Camera_handleFileUpload
    \/ readerLoadEnd
    \/ Camera_handleFinish
    \/ Camera_onClose

SpecCamera == Init /\ [][NextCamera]_vars

------------------------------------------------------------------------------
(* The ChatInterface component (src/components/ChatInterface.tsx).           *)
(* A message is a record with role and text, and isStreaming where the code  *)
(* sets it; a text is the sequence of the pieces it was put together from.   *)
(* chat.pc is the position of handleSend: idle, at the await of              *)
(* sendMessageStream, or in the for-await loop over the stream.              *)

Greeting == << "Hi! I'm your AI Agronomist." >>

ConnectionTrouble ==
    << "I'm having trouble connecting to the field server. Please try again." >>

\* what the user may type: nothing, blanks, a question
Inputs == { "", " ", "Is it contagious?" }

\* input.trim()
Trim(text) == IF text = " " THEN "" ELSE text

\* c.text of a chunk: without text, or some words
ChunkTexts == { "", "words" }

IsStreamingMessage(msg) == Has(msg, "isStreaming") /\ msg.isStreaming

\* the updater of lines 59-66
WithStreamedText(messages, fullText) ==
    LET lastMsg == messages[Len(messages)] IN
    IF lastMsg.role = "model" /\ IsStreamingMessage(lastMsg)
      THEN [ messages EXCEPT ![Len(messages)] = [ lastMsg EXCEPT !.text = fullText ] ]
      ELSE messages

\* the updater of lines 71-78: isStreaming is assigned, present before or not
Finalized(messages) ==
    LET lastMsg == messages[Len(messages)] IN
    IF lastMsg.role = "model"
      THEN [ messages EXCEPT ![Len(messages)] =
               [ k \in DOMAIN lastMsg \cup { "isStreaming" } |->
                   IF k = "isStreaming" THEN FALSE ELSE lastMsg[k] ] ]
      ELSE messages

\* the catch block and the finally block
SendFailed(c) ==
    [ c EXCEPT !.messages = Append(@, [ role |-> "model", text |-> ConnectionTrouble ]),
               !.isLoading = FALSE,
               !.pc = "idle" ]

chatUnchanged ==
    UNCHANGED << view, isCameraOpen, capturedImages, cameraImages, history,
                 userNotes, iotData, isAnalyzing, analysisStatus, currentResult,
                 clarificationQuestions, showClarificationModal, modalState,
                 overrideNotes, run, interaction, failureLog, normalization,
                 sessions, singleCall, isConnectingIoT, iotRequested,
                 analysisMode, camera >>

\* the component is mounted: the effect creates the session and the greeting
openChat ==
    /\ ~chat.open
    /\ chat.sends = 0
    /\ chat' = [ chat EXCEPT !.open = TRUE,
                             !.chatSession = TRUE,
                             !.messages = << [ role |-> "model", text |-> Greeting ] >> ]
    /\ chatUnchanged

\* the text field, disabled while isLoading
setInput ==
    /\ chat.open
    /\ ~chat.isLoading
    /\ \E text \in Inputs : chat' = [ chat EXCEPT !.input = text ]
    /\ chatUnchanged

\* handleSend up to its await; the form is submitted by the button or by Enter
handleSend ==
    /\ chat.open
    /\ ~chat.isLoading
    /\ chat.sends < MaxSends
    /\ IF Trim(chat.input) = "" \/ ~chat.chatSession
         THEN UNCHANGED chat
         ELSE chat' = [ chat EXCEPT
                 !.input = "",
                 !.messages = @ \o << [ role |-> "user", text |-> << chat.input >> ],
                                      [ role |-> "model", text |-> << >>,
                                        isStreaming |-> TRUE ] >>,
                 !.isLoading = TRUE,
                 !.pc = "sendMessageStream",
                 !.fullText = << >>,
                 !.chunks = 0,
                 !.sends = @ + 1 ]
    /\ chatUnchanged

\* the awaited sendMessageStream resolves with a stream
sendMessageStreamResolves ==
    /\ chat.pc = "sendMessageStream"
    /\ chat' = [ chat EXCEPT !.pc = "stream" ]
    /\ chatUnchanged

\* the awaited sendMessageStream rejects
sendMessageStreamRejects ==
    /\ chat.pc = "sendMessageStream"
    /\ chat' = SendFailed(chat)
    /\ chatUnchanged

\* the stream yields a chunk
streamYields ==
    /\ chat.pc = "stream"
    /\ chat.chunks < MaxStreamChunks
    /\ \E text \in ChunkTexts :
          chat' =
            IF text = ""
              THEN [ chat EXCEPT !.chunks = @ + 1 ]
              ELSE LET fullText == Append(chat.fullText, text) IN
                   [ chat EXCEPT !.chunks = @ + 1,
                                 !.fullText = fullText,
                                 !.messages = WithStreamedText(@, fullText) ]
    /\ chatUnchanged

\* the stream ends: the message is finalized, then the finally block
streamEnds ==
    /\ chat.pc = "stream"
    /\ chat' = [ chat EXCEPT !.messages = Finalized(@),
                             !.isLoading = FALSE,
                             !.pc = "idle" ]
    /\ chatUnchanged

\* the stream throws while it is iterated
streamThrows ==
    /\ chat.pc = "stream"
    /\ chat' = SendFailed(chat)
    /\ chatUnchanged

NextChat ==
    \/ openChat
    \/ setInput
    \/ handleSend
    \/ sendMessageStreamResolves
    \/ sendMessageStreamRejects
    \/ streamYields
    \/ streamEnds
    \/ streamThrows

SpecChat == Init /\ [][NextChat]_vars

-----------------------------------------------------------------------------
(* Properties *)

Stages == { "Analyzer", "Classifier", "Advisor" }

Calls(stage) == Count(run.log, "call " \o stage)

AdvisorEntered == Count(run.log, "enter Advisor")

ContainsSentinel(text) == "NOT_A_PLANT" \in { text[i] : i \in 1..Len(text) }

Returned == run.pc = "settled" /\ run.outcome.kind = "resolved"

Raised == run.pc = "settled" /\ run.outcome.kind = "rejected"

NonEmptyList(obj, k) == Has(obj, k) /\ obj[k] # << >>

\* C1: whenever the Analyzer's text contains NOT_A_PLANT, the run has ended
\* without a call of the Classifier or of the Advisor, and has returned
\* diagnosis "Not a Plant", confidence 0, empty treatment and prevention, and
\* no citations.
C1_NotAPlantShortCircuit ==
    ContainsSentinel(run.visualDescription) =>
        /\ Returned
        /\ Calls("Classifier") = 0
        /\ Calls("Advisor") = 0
        /\ AdvisorEntered = 0
        /\ run.outcome.value.diagnosis = "Not a Plant"
        /\ run.outcome.value.confidence = 0
        /\ run.outcome.value.treatment = << >>
        /\ run.outcome.value.prevention = << >>
        /\ ~NonEmptyList(run.outcome.value, "sources")

C1_Witness ==
    /\ Returned
    /\ run.visualDescription = <<"blurry", "NOT_A_PLANT">>
    /\ Calls("Analyzer") = 1

\* C2: in a run whose notes carry the USER ANSWERS marker, where the Analyzer
\* reports a plant and every stage call succeeds, the returned result carries
\* no missingInfo and the Advisor was invoked exactly once.
C2_ForcedFinalizationNeverHalts ==
    ( /\ Returned
      /\ HasUserAnswers(run.request.userNotes)
      /\ ~ContainsSentinel(run.visualDescription) )
    => /\ ~Has(run.outcome.value, "missingInfo")
       /\ AdvisorEntered = 1


\* C3: within one interaction (one press of Analyze and the clarification
\* submissions that follow it) the Classifier is called at most twice, at
\* most one clarification round is opened, and once answers have been
\* submitted the clarification modal is not shown again.
C3_SingleClarificationRound ==
    /\ interaction.classifierCalls <= 2
    /\ interaction.clarifications <= 1
    /\ interaction.submissions <= 1
    /\ interaction.submissions >= 1 => ~showClarificationModal

\* the retry with answers came back with questions again, and the App went on
C3_Witness ==
    /\ interaction.classifierCalls = 2
    /\ interaction.submissions = 1
    /\ Returned
    /\ NonEmptyList(run.outcome.value, "missingInfo")
    /\ run.outcome.value.confidence # 0
    /\ ~isAnalyzing

\* C4: whenever the returned result has a non-empty missingInfo list, the
\* Advisor was not invoked in that run and the result's treatment, prevention
\* and citations are empty.
C4_HaltCarriesNoAdvice ==
    (Returned /\ NonEmptyList(run.outcome.value, "missingInfo")) =>
        /\ AdvisorEntered = 0
        /\ Calls("Advisor") = 0
        /\ run.outcome.value.treatment = << >>
        /\ run.outcome.value.prevention = << >>
        /\ ~NonEmptyList(run.outcome.value, "sources")

\* a halt although the Classifier had found citations
C4_Witness ==
    /\ Returned
    /\ NonEmptyList(run.outcome.value, "missingInfo")
    /\ run.classification.sources # << >>

LaterStages(stage) ==
    CASE stage = "Analyzer" -> { "Classifier", "Advisor" }
      [] stage = "Classifier" -> { "Advisor" }
      [] stage = "Advisor" -> { }

\* C5: once the generation call of a stage has failed, the run has rejected
\* without a result, the failed stage was called once only, and no later
\* stage was invoked.
C5_StageFailureAborts ==
    \A stage \in Stages :
        Count(run.log, "reject " \o stage) > 0 =>
            /\ Raised
            /\ run.log[Len(run.log)] = "reject " \o stage
            /\ Calls(stage) = 1
            /\ \A later \in LaterStages(stage) : Calls(later) = 0
            /\ stage # "Advisor" => AdvisorEntered = 0

\* the Classifier's call failed
C5_Witness ==
    /\ Raised
    /\ Count(run.log, "reject Classifier") = 1
    /\ Calls("Analyzer") = 1

C7_AdviceNonEmpty ==
    ( /\ Returned
      /\ Count(run.log, "resolve Advisor") = 1
      /\ ~AdvisorShortCircuits(run.classification) )
    => /\ run.outcome.value.treatment # << >>
       /\ run.outcome.value.prevention # << >>

RequiredOfClassifier == { "diagnosis", "confidence", "confidenceReason" }

RequiredOfAdvisor == { "treatment", "prevention" }

\* the response text is empty, or not the JSON of an object with the fields
LacksFields(response, fields) ==
    \/ response.text.kind # "json"
    \/ ~(fields \subseteq DOMAIN response.text.json)

\* C8: if the Classifier's response is empty or lacks a required field, the
\* run rejects and the Advisor is not invoked.
C8_ClassifierFieldsRequired ==
    ( /\ run.classifierResponse # << >>
      /\ LacksFields(run.classifierResponse, RequiredOfClassifier) )
    => /\ Raised
       /\ AdvisorEntered = 0

\* C9: if the Advisor's response is empty or lacks one of the two lists, the
\* run rejects.
C9_AdvisorListsRequired ==
    ( /\ run.advisorResponse # << >>
      /\ LacksFields(run.advisorResponse, RequiredOfAdvisor) )
    => Raised

\* C10: the first normalization of a reported confidence r gives round(100 r)
\* if 0 < r <= 1, the integer n with n - 1/2 <= 100 r < n + 1/2, and r itself
\* otherwise; so a value in [2, 100] and the value 0 are returned unchanged.
C10_NormalizationCases ==
    ( /\ Has(normalization.json, "confidence")
      /\ normalization.passes # << >> )
    => LET r == normalization.json.confidence
           c == normalization.passes[1]
       IN  /\ (0 < r /\ r <= 1000) =>
                \E n \in 0..100 : /\ c = 1000 * n
                                  /\ 10 * n - 5 <= r
                                  /\ r < 10 * n + 5
           /\ ~(0 < r /\ r <= 1000) => c = r
           /\ (2000 <= r /\ r <= 100000) => c = r
           /\ r = 0 => c = 0
           /\ r = 870 => c = 87000

\* 0.87 has been normalized to 87
C10_Witness ==
    /\ normalization.json = [confidence |-> 870]
    /\ Len(normalization.passes) >= 1
    /\ normalization.passes[1] = 87000

\* C11: whatever numeric confidence the Classifier reported (a fraction, a
\* value above 1 with a fractional part, a value above 100, a negative value,
\* or none), the confidence of a returned result is an integer from 0 to 100.
C11_ConfidenceIsPercentage ==
    (Returned /\ run.classifierResponse # << >>)
    => /\ Has(run.outcome.value, "confidence")
       /\ \E n \in 0..100 : run.outcome.value.confidence = Num(n)

\* the citation a chunk gives, for the chunks that carry both a uri and a title
Citation(chunk) == [title |-> chunk.web.title, uri |-> chunk.web.uri]

Citable(chunk) ==
    Has(chunk, "web") /\ Has(chunk.web, "uri") /\ Has(chunk.web, "title")

\* the citations of a chunk list, each URI once, at its first occurrence
RECURSIVE FirstOccurrences(_, _)
FirstOccurrences(chunks, seen) ==
    IF chunks = << >> THEN << >>
    ELSE LET c == Head(chunks)
         IN  IF Citable(c) /\ c.web.uri \notin seen
                THEN <<Citation(c)>>
                        \o FirstOccurrences(Tail(chunks), seen \cup {c.web.uri})
                ELSE FirstOccurrences(Tail(chunks), seen)

\* a run that went past the Classifier and returned what runAdvisorAgent gave
Committed == Returned /\ AdvisorEntered = 1

\* C12: the citations of a committed result hold each URI at most once, and
\* are the first occurrences (position and title) of the URIs in the
\* Classifier's grounding chunks, in the order they were first seen.
C12_CitationsDeduplicated ==
    Committed =>
        LET sources == run.outcome.value.sources
        IN  /\ \A i, j \in 1..Len(sources) :
                 sources[i].uri = sources[j].uri => i = j
            /\ sources = FirstOccurrences(run.classifierResponse.chunks, {})

\* uniqueSources.slice(0, 5) of the single-call analysis
SourceCap == 5

\* C13: a returned result never carries more citations than the cap.
C13_CitationsCapped ==
    (Returned /\ Has(run.outcome.value, "sources"))
    => Len(run.outcome.value.sources) <= SourceCap

\* the first position of an event in a log, 0 if it is not there
Position(log, e) ==
    IF \E i \in 1..Len(log) : log[i] = e
        THEN CHOOSE i \in 1..Len(log) : log[i] = e /\ \A j \in 1..(i - 1) : log[j] # e
        ELSE 0

LabelOf(stage) ==
    CASE stage = "Analyzer" -> StatusAgent1
      [] stage = "Classifier" -> StatusAgent2
      [] stage = "Advisor" -> StatusAgent3

\* how often the stage was entered: the Advisor is entered even when it
\* answers without a generation call
Entered(stage) == IF stage = "Advisor" THEN AdvisorEntered ELSE Calls(stage)

\* C14: with a status callback that returns, each stage that is entered has
\* had its label delivered exactly once, before the stage's generation call
\* is issued and in the order Agent 1, Agent 2, Agent 3; a stage that is not
\* entered has no label; without a callback there is no label at all.
C14_StatusPerStage ==
    /\ (run.pc # "idle" /\ run.request.onStatus /\ ~run.request.callbackFails) =>
        /\ \A stage \in Stages :
            /\ Entered(stage) <= 1
            /\ Count(run.log, LabelOf(stage)) = Entered(stage)
            /\ Calls(stage) >= 1 =>
                 Position(run.log, LabelOf(stage))
                    < Position(run.log, "call " \o stage)
        /\ AdvisorEntered = 1 =>
             Position(run.log, StatusAgent3) < Position(run.log, "enter Advisor")
        /\ Entered("Classifier") = 1 =>
             Position(run.log, StatusAgent1) < Position(run.log, StatusAgent2)
        /\ Entered("Advisor") = 1 =>
             Position(run.log, StatusAgent2) < Position(run.log, StatusAgent3)
    /\ (run.pc # "idle" /\ ~run.request.onStatus) =>
        \A stage \in Stages : Count(run.log, LabelOf(stage)) = 0

\* all three labels were delivered and the run returned the Advisor's plan
C14_Witness ==
    /\ Returned
    /\ run.request.onStatus
    /\ ~run.request.callbackFails
    /\ Calls("Advisor") = 1
    /\ \A stage \in Stages : Count(run.log, LabelOf(stage)) = 1

CallEvents == { "call " \o stage : stage \in Stages }

ReturnEvents ==
    { "resolve " \o stage : stage \in Stages } \cup { "reject " \o stage : stage \in Stages }

LabelEvents == { LabelOf(stage) : stage \in Stages }

\* the stage calls of a log, in the order they were issued
StageCalls(log) == SelectSeq(log, LAMBDA e : e \in CallEvents)

\* the status labels of a log, in the order they were delivered
StatusSequence(log) == SelectSeq(log, LAMBDA e : e \in LabelEvents)

\* one stage call of a run answered the way the same call of run r was
\* answered: rejected, or resolved with the response r received
Answered(s, r) ==
    IF Count(r.log, "reject " \o s.pc) >= 1 THEN StageRejected(s)
    ELSE CASE s.pc = "Analyzer" -> AnalyzerResolved(s, r.visualDescription)
           [] s.pc = "Classifier" -> ClassifierResolved(s, r.classifierResponse)
           [] s.pc = "Advisor" -> AdvisorResolved(s, r.advisorResponse)

\* analyzePlantImage(request) executed alone, from its call to its outcome,
\* against the responses that the settled run r received
Replay(request, r) ==
    LET s0 == analyzePlantImage(request)
        s1 == IF s0.pc = "Analyzer" THEN Answered(s0, r) ELSE s0
        s2 == IF s1.pc = "Classifier" THEN Answered(s1, r) ELSE s1
    IN  IF s2.pc = "Advisor" THEN Answered(s2, r) ELSE s2

\* C15: take a settled run that had no status callback; the same request
\* against the same stage responses, with a callback that returns or with a
\* callback that throws, makes the same stage calls and has the same outcome.
C15_StatusNeverAffectsControlFlow ==
    (run.pc = "settled" /\ ~run.request.onStatus) =>
        \A o \in StatusCallbacks :
            LET other == Replay([run.request EXCEPT
                                    !.onStatus = o.onStatus,
                                    !.callbackFails = o.callbackFails], run)
            IN  /\ StageCalls(other.log) = StageCalls(run.log)
                /\ other.outcome = run.outcome

\* the stage calls of the first i events that have not come back yet
InFlight(log, i) ==
    Cardinality({ j \in 1..i : log[j] \in CallEvents })
        - Cardinality({ j \in 1..i : log[j] \in ReturnEvents })

\* C16: in one run each stage is called at most once, the Classifier's call is
\* issued only after the Analyzer's call has resolved and the Advisor's only
\* after the Classifier's has resolved, and at no point of the run is more
\* than one stage call in flight.
C16_StagesSequentialOnce ==
    /\ \A stage \in Stages : Calls(stage) <= 1
    /\ Calls("Classifier") = 1 =>
        /\ Position(run.log, "resolve Analyzer") > 0
        /\ Position(run.log, "resolve Analyzer") < Position(run.log, "call Classifier")
    /\ Calls("Advisor") = 1 =>
        /\ Position(run.log, "resolve Classifier") > 0
        /\ Position(run.log, "resolve Classifier") < Position(run.log, "call Advisor")
    /\ \A i \in 0..Len(run.log) : InFlight(run.log, i) \in {0, 1}

\* the three calls were issued one after the other and the run returned
C16_Witness ==
    /\ Returned
    /\ StageCalls(run.log) = <<"call Analyzer", "call Classifier", "call Advisor">>
    /\ InFlight(run.log, Len(run.log)) = 0

\* the outcome of a settled run r, as the pipeline's caller is to see it
IsNotAPlantOutcome(r) ==
    /\ r.outcome.kind = "resolved"
    /\ Has(r.outcome.value, "diagnosis")
    /\ r.outcome.value.diagnosis = "Not a Plant"

IsClarificationOutcome(r) ==
    /\ r.outcome.kind = "resolved"
    /\ ~IsNotAPlantOutcome(r)
    /\ NonEmptyList(r.outcome.value, "missingInfo")

IsFinalizedOutcome(r) ==
    /\ r.outcome.kind = "resolved"
    /\ ~IsNotAPlantOutcome(r)
    /\ ~NonEmptyList(r.outcome.value, "missingInfo")

\* the step in which the App's run settles and the App handles its outcome
RunSettles == run.pc # "settled" /\ run'.pc = "settled"

\* C17: when the run settles, the App shows "No Plant Detected" exactly if the
\* outcome is the not-a-plant outcome, and "Analysis Failed" exactly if the
\* run failed.
C17_NoPlantMessageExact ==
    [][ RunSettles =>
          /\ (modalState'.show /\ modalState'.title = "No Plant Detected")
                <=> IsNotAPlantOutcome(run')
          /\ (modalState'.show /\ modalState'.title = "Analysis Failed")
                <=> run'.outcome.kind = "rejected" ]_vars

\* C18: when the run settles with a finalized diagnosis, history gains exactly
\* one entry, at the front; in every other step, and for every other outcome
\* of a run (not a plant, clarification halt, failure), history is unchanged.
C18_HistoryGrowsOnFinalization ==
    [][ IF RunSettles /\ IsFinalizedOutcome(run')
            THEN /\ Len(history') = Len(history) + 1
                 /\ Tail(history') = history
                 /\ Head(history').confidence = run'.outcome.value.confidence
            ELSE history' = history ]_vars

\* C19: every run of analyzePlantImage that the App has started was started
\* with at least one image, and while the App waits for a run it holds at
\* least one captured image.
C19_RunsHaveImages ==
    /\ run.pc # "idle" => run.request.images >= 1
    /\ isAnalyzing => capturedImages >= 1

\* a run is in flight for the images that Done delivered
C19_Witness ==
    /\ isAnalyzing
    /\ run.pc = "Analyzer"
    /\ run.request.images = capturedImages
    /\ capturedImages >= 1
    /\ cameraImages = 0

UniqueUris(chunks) ==
    { chunks[i].web.uri : i \in { k \in 1..Len(chunks) : Citable(chunks[k]) } }

\* C21: when the single-call analysis returns and fewer than 10 distinct
\* sources were found, the confidence of the result is at most 98.
C21_ConfidenceCappedAt98 ==
    ( /\ singleCall.pc = "settled"
      /\ singleCall.outcome.kind = "resolved"
      /\ Cardinality(UniqueUris(singleCall.response.chunks)) < 10
      /\ Has(singleCall.outcome.value, "confidence") )
    => singleCall.outcome.value.confidence <= 98000

\* the property k of two objects is missing in both or equal in both
SameProp(a, b, k) ==
    /\ Has(a, k) <=> Has(b, k)
    /\ Has(a, k) => a[k] = b[k]

\* what runAdvisorAgent gave the run: the parsed response of its call, or the
\* two empty lists when it answered without a call
AdviceGiven ==
    IF Calls("Advisor") = 0 THEN [treatment |-> << >>, prevention |-> << >>]
    ELSE IF run.advisorResponse.text.kind = "json"
            THEN run.advisorResponse.text.json
            ELSE << >>

\* C22: a settled run whose Analyzer reported a plant and whose Classifier
\* outcome has no question entered the Advisor exactly once; if it returned,
\* the result has no missingInfo, takes diagnosis, confidence, rationale and
\* citations from the Classifier outcome, and treatment and prevention from
\* the Advisor (an absent list counting as empty).
C22_NoQuestionsGoesToAdvisor ==
    ( /\ run.pc = "settled"
      /\ ~ContainsSentinel(run.visualDescription)
      /\ run.classification # << >>
      /\ ~NonEmptyList(run.classification, "missingInfo") )
    => /\ AdvisorEntered = 1
       /\ Calls("Advisor") <= 1
       /\ Returned =>
            /\ ~Has(run.outcome.value, "missingInfo")
            /\ \A k \in { "diagnosis", "confidence", "confidenceReason", "sources" } :
                 SameProp(run.outcome.value, run.classification, k)
            /\ \A k \in { "treatment", "prevention" } :
                 run.outcome.value[k] = IF Has(AdviceGiven, k) THEN AdviceGiven[k]
                                                               ELSE << >>

\* the Classifier sent an empty question list and the Advisor's plan came back
C22_Witness ==
    /\ Returned
    /\ Calls("Advisor") = 1
    /\ Has(run.classification, "missingInfo")
    /\ run.classification.missingInfo = << >>
    /\ run.outcome.value.treatment # << >>
    /\ run.outcome.value.sources # << >>

\* C23: when a run started without answers settles with a result that has a
\* non-empty missingInfo list, the App shows the clarification modal with
\* exactly those questions.
C23_QuestionsOpenClarification ==
    [][ ( /\ RunSettles
          /\ overrideNotes = << >>
          /\ run'.outcome.kind = "resolved"
          /\ NonEmptyList(run'.outcome.value, "missingInfo") )
        => /\ showClarificationModal'
           /\ clarificationQuestions' = run'.outcome.value.missingInfo ]_vars

\* C24: whenever history changes, it is by an entry built from the result of
\* a run that entered the Advisor, not from a clarification halt.
C24_HistoryOnlyFromAdvisedRuns ==
    [][ history' # history =>
          /\ run'.pc = "settled"
          /\ run'.outcome.kind = "resolved"
          /\ Count(run'.log, "enter Advisor") = 1
          /\ ~NonEmptyList(run'.outcome.value, "missingInfo") ]_vars

\* the run in flight is carried on: same request, its log only extended
RunCarriedOn ==
    /\ run'.request = run.request
    /\ Len(run'.log) >= Len(run.log)
    /\ SubSeq(run'.log, 1, Len(run.log)) = run.log

\* C25: while the App is in the loading state no other run is started, and,
\* generation calls coming back, every loading state is left again.
C25_LoadingStateIsLeft ==
    /\ [][ isAnalyzing => RunCarriedOn ]_vars
    /\ [](isAnalyzing => run.pc \in {"Analyzer", "Classifier", "Advisor"})
    /\ (isAnalyzing ~> ~isAnalyzing)

\* a failed run has been handled and the loading screen is gone
C25_Witness ==
    /\ Raised
    /\ ~isAnalyzing
    /\ modalState.show
    /\ interaction.analyses = 1

\* C26: a sensor snapshot is present only if Connect Device has been pressed
\* since the last startNewScan: a timer started before does not set it.
C26_NoSnapshotFromOldTimer ==
    iotData => iotRequested

\* C27: the Camera never holds more than MAX_IMAGES images and never hands
\* more than MAX_IMAGES images to onCapture.
C27_AtMostMaxImages ==
    /\ camera.capturedImages <= MAX_IMAGES
    /\ camera.handed <= MAX_IMAGES

\* C28: at most one acquired stream is live at any time, and none once the
\* component has been closed or has finished.
C28_NoStreamLeak ==
    /\ Cardinality(camera.live) <= 1
    /\ ~camera.mounted => camera.live = {}

\* C29: when no handleSend is under way, isLoading is false and no message
\* of the list has isStreaming true.
C29_SettledSendLeavesNoStreaming ==
    chat.pc = "idle" =>
        /\ ~chat.isLoading
        /\ \A i \in 1..Len(chat.messages) : ~IsStreamingMessage(chat.messages[i])

\* C30 as stated: normalizing a normalized confidence returns it unchanged,
\* whatever the reported value.
C30_NormalizationIdempotent ==
    Len(normalization.passes) >= 2
    => normalization.passes[2] = normalization.passes[1]

\* C30: normalizing a normalized confidence returns it unchanged, except for
\* a reported value r with 0.005 <= r < 0.015: it is normalized to 1, and 1 is
\* normalized to 100.
C30_IdempotentButForOne ==
    Len(normalization.passes) >= 2
    => LET r == RawConfidence(normalization.json) IN
       normalization.passes[2] =
          IF 5 <= r /\ r < 15 THEN Num(100) ELSE normalization.passes[1]

\* 0.01 is normalized to 1 and 1 to 100
C30_Witness ==
    /\ normalization.json = [confidence |-> 10]
    /\ normalization.passes = << Num(1), Num(100) >>

====
